---- MODULE Spec2Model ----
(***************************************************************************)
(* A model of hartrebounds.py: the clip-compilation pipeline of main(),    *)
(* the page retriever download_video_from_page(), the overlay and concat   *)
(* tools, and the interactive replacement session.  Strings are sequences  *)
(* of one-character strings, so that formatting a file name and parsing it *)
(* back with a regular expression are two different computations.          *)
(***************************************************************************)
EXTENDS Integers, Sequences, FiniteSets, TLC

(* ------------------------------ bounds --------------------------------- *)
MaxEvents == 3          \* longest feed drawn by Init
MaxRounds == 2          \* prompt rounds of one replacement session
MaxFaults == 1          \* retriever, overlay and concat calls the environment lets fail in one run

(* ------------------------- program constants --------------------------- *)
max_retries == 5
RetryDelay == 3

(* --------------------------- string helpers ---------------------------- *)
DigitChars == <<"0", "1", "2", "3", "4", "5", "6", "7", "8", "9">>

IsDigit(c) == \E i \in 1..10 : DigitChars[i] = c

DigitVal(c) == (CHOOSE i \in 1..10 : DigitChars[i] = c) - 1

IsSpace(c) == c = " "

\* str(n) of a non-negative int, as the f-strings format it
RECURSIVE Dec(_)
Dec(n) == IF n < 10 THEN <<DigitChars[n + 1]>>
          ELSE Dec(n \div 10) \o <<DigitChars[(n % 10) + 1]>>

\* int(s) of a string of decimal digits
RECURSIVE IntOfDigits(_)
IntOfDigits(s) == IF s = <<>> THEN 0
                  ELSE 10 * IntOfDigits(SubSeq(s, 1, Len(s) - 1)) + DigitVal(s[Len(s)])

\* the literal lit occurs in s starting at index i
HasPrefixAt(s, i, lit) ==
    /\ i >= 1
    /\ i + Len(lit) - 1 <= Len(s)
    /\ \A j \in 1..Len(lit) : s[i + j - 1] = lit[j]

\* sub in s
Contains(s, sub) == \E i \in 1..(Len(s) + 1) : HasPrefixAt(s, i, sub)

\* first index >= i of s that is not a digit (Len(s)+1 when the run reaches the end): greedy \d*
RECURSIVE DigitRunEnd(_, _)
DigitRunEnd(s, i) == IF i <= Len(s) /\ IsDigit(s[i]) THEN DigitRunEnd(s, i + 1) ELSE i

\* no white space is consumed
SpaceRunEnd_None(s, i) == i

\* first index >= i of s that is not white space: greedy \s*
RECURSIVE SpaceRunEnd(_, _)
SpaceRunEnd(s, i) == IF i <= Len(s) /\ IsSpace(s[i]) THEN SpaceRunEnd(s, i + 1) ELSE i

\* str.strip()
RECURSIVE LStrip(_)
LStrip(s) == IF s # <<>> /\ IsSpace(s[1]) THEN LStrip(Tail(s)) ELSE s

RECURSIVE RStrip(_)
RStrip(s) == IF s # <<>> /\ IsSpace(s[Len(s)]) THEN RStrip(SubSeq(s, 1, Len(s) - 1)) ELSE s

Strip(s) == RStrip(LStrip(s))

\* str.replace(a, b) for one-character a and b
Replace(s, a, b) == [i \in 1..Len(s) |-> IF s[i] = a THEN b ELSE s[i]]

(* ------------------------------ literals ------------------------------- *)
L_OffColon == <<"O", "f", "f", ":">>
L_DefColon == <<"D", "e", "f", ":">>
L_Off == <<"O", "f", "f">>
L_UDef == <<"_", "D", "e", "f">>
L_UOff == <<"_", "O", "f", "f">>
L_UTotal == <<"_", "T", "o", "t", "a", "l">>
L_Mp4 == <<".", "m", "p", "4">>
L_Clip == <<"c", "l", "i", "p", "_">>
L_Processed == <<"p", "r", "o", "c", "e", "s", "s", "e", "d", "_">>
L_Temp == <<"t", "e", "m", "p", "_">>
L_VideosTxt == <<"v", "i", "d", "e", "o", "s", ".", "t", "x", "t">>
player_name == <<"H", "a", "r", "t", " ", "R", "E", "B", "O", "U", "N", "D">>

(* --------------------------- StatExtractor ----------------------------- *)
\* Python's None where an int is expected, and a key missing from a feed record
None == -1
Missing == <<"<missing>">>

\* r'Off:(\d+)\s*Def:(\d+)' matches at index i
OffDefOkAt(s, i) ==
    /\ HasPrefixAt(s, i, L_OffColon)
    /\ LET a1 == i + Len(L_OffColon)
           e1 == DigitRunEnd(s, a1)
           w1 == SpaceRunEnd(s, e1)
           a2 == w1 + Len(L_DefColon)
       IN  /\ e1 > a1
           /\ HasPrefixAt(s, w1, L_DefColon)
           /\ DigitRunEnd(s, a2) > a2

\* the two groups of the match at index i
OffDefGroups(s, i) ==
    LET a1 == i + Len(L_OffColon)
        e1 == DigitRunEnd(s, a1)
        a2 == SpaceRunEnd(s, e1) + Len(L_DefColon)
    IN  <<SubSeq(s, a1, e1 - 1), SubSeq(s, a2, DigitRunEnd(s, a2) - 1)>>

\* the leftmost index from i on where ok holds, 0 when there is none: re.search
RECURSIVE FirstOffDef(_, _)
FirstOffDef(s, i) ==
    IF i > Len(s) THEN 0
    ELSE IF OffDefOkAt(s, i) THEN i
    ELSE FirstOffDef(s, i + 1)

extract_off_def(description) ==
    LET i == FirstOffDef(description, 1)
    IN  IF i # 0
        THEN LET g == OffDefGroups(description, i)
             IN  <<IntOfDigits(g[1]), IntOfDigits(g[2])>>
        ELSE <<None, None>>

(* ----------------------------- file names ------------------------------ *)
\* the common tail _Off{off}_Def{deff}_Total{total}.mp4 ; off and deff already formatted
StatTail(offs, defs, total) ==
    L_UOff \o offs \o L_UDef \o defs \o L_UTotal \o Dec(total) \o L_Mp4

\* f'clip_{idx}_Off{off}_Def{deff}_Total{off+deff}.mp4'
RawName(idx, off, deff) == L_Clip \o Dec(idx) \o StatTail(Dec(off), Dec(deff), off + deff)

\* a variant that writes the two counts under each other's label
ProcessedName_Swapped(idx, off, deff) ==
    L_Processed \o L_Clip \o Dec(idx) \o StatTail(Dec(deff), Dec(off), off + deff)

\* f'processed_clip_{idx}_Off{off}_Def{deff}_Total{off+deff}.mp4'
ProcessedName(idx, off, deff) ==
    L_Processed \o L_Clip \o Dec(idx) \o StatTail(Dec(off), Dec(deff), off + deff)

\* f'temp_clip_{clip_number}.mp4'
TempName(clip_number) == L_Temp \o L_Clip \o Dec(clip_number) \o L_Mp4

\* r'Off(\d+)_Def(\d+)_Total(\d+)' matches at index i
FileStatOkAt(s, i) ==
    /\ HasPrefixAt(s, i, L_Off)
    /\ LET a1 == i + Len(L_Off)
           e1 == DigitRunEnd(s, a1)
           a2 == e1 + Len(L_UDef)
           e2 == DigitRunEnd(s, a2)
           a3 == e2 + Len(L_UTotal)
       IN  /\ e1 > a1
           /\ HasPrefixAt(s, e1, L_UDef)
           /\ e2 > a2
           /\ HasPrefixAt(s, e2, L_UTotal)
           /\ DigitRunEnd(s, a3) > a3

\* the three groups of the match at index i
FileStatGroups(s, i) ==
    LET a1 == i + Len(L_Off)
        e1 == DigitRunEnd(s, a1)
        a2 == e1 + Len(L_UDef)
        e2 == DigitRunEnd(s, a2)
        a3 == e2 + Len(L_UTotal)
    IN  [ok |-> TRUE,
         g1 |-> SubSeq(s, a1, e1 - 1),
         g2 |-> SubSeq(s, a2, e2 - 1),
         g3 |-> SubSeq(s, a3, DigitRunEnd(s, a3) - 1)]

RECURSIVE FirstFileStat(_, _)
FirstFileStat(s, i) ==
    IF i > Len(s) THEN 0
    ELSE IF FileStatOkAt(s, i) THEN i
    ELSE FirstFileStat(s, i + 1)

\* re.search(r'Off(\d+)_Def(\d+)_Total(\d+)', filename): leftmost match or no match
FileStatSearch(s) ==
    LET i == FirstFileStat(s, 1)
    IN  IF i # 0 THEN FileStatGroups(s, i)
        ELSE [ok |-> FALSE, g1 |-> <<>>, g2 |-> <<>>, g3 |-> <<>>]

\* a variant that takes the total for the defensive count
ReplacementName_FromTotal(clip_number, offs, defs) ==
    L_Processed \o L_Clip \o Dec(clip_number)
        \o StatTail(offs, Dec(IntOfDigits(offs) + IntOfDigits(defs)),
                    IntOfDigits(offs) + IntOfDigits(defs))

\* the replacement's annotated name, from the digit strings parsed out of the old name
ReplacementName(clip_number, offs, defs) ==
    L_Processed \o L_Clip \o Dec(clip_number)
        \o StatTail(offs, defs, IntOfDigits(offs) + IntOfDigits(defs))

(* ------------------------------ the feed ------------------------------- *)
\* a description carrying both labelled counts
Desc(a, b) ==
    player_name \o <<" ", "(">> \o L_OffColon \o Dec(a) \o <<" ">>
        \o L_DefColon \o Dec(b) \o <<")">>

\* the statistic pairs the feeds of Init carry
StatPairs == {<<2, 1>>, <<0, 3>>, <<1, 0>>, <<0, 0>>}

Descriptions == {Desc(p[1], p[2]) : p \in StatPairs} \cup {player_name}

FeedEntries == {[description |-> d, actionNumber |-> 7] : d \in Descriptions}

RECURSIVE SeqsUpTo(_, _)
SeqsUpTo(S, n) ==
    IF n = 0 THEN {<<>>}
    ELSE LET shorter == SeqsUpTo(S, n - 1)
         IN  shorter \cup {Append(q, x) : q \in {r \in shorter : Len(r) = n - 1}, x \in S}

Feeds == {[gameId |-> <<"1">>, actions |-> a] : a \in SeqsUpTo(FeedEntries, MaxEvents)}

\* dict.get(key, default) on a string-valued key
Get(v, default) == IF v = Missing THEN default ELSE v

\* Python's `not x` on an int or None, and on a string or None
Not(v) == v = None \/ v = 0

NotStr(v) == v = Missing \/ v = <<>>

RECURSIVE FilterEvents(_, _, _)
FilterEvents(actions, game_id, marker) ==
    IF actions = <<>> THEN <<>>
    ELSE LET event == Head(actions)
             description == Strip(Get(event.description, <<>>))
             event_num == event.actionNumber
             rest == FilterEvents(Tail(actions), game_id, marker)
         IN  IF Contains(description, marker) /\ ~(Not(event_num) \/ NotStr(game_id))
             THEN <<[description |-> description, event_num |-> event_num]>> \o rest
             ELSE rest

extract_events(data, marker) == FilterEvents(data.actions, data.gameId, marker)

\* the game information main() gets from its collaborators
away_team == <<"N", "Y", "K">>
home_team == <<"B", "O", "S">>
game_date == <<"0", "1", "/", "0", "2", "/", "2", "0", "2", "5">>

(* ------------------------------- state --------------------------------- *)
VARIABLES
    pc,                 \* position of the program
    response,           \* main: the play-by-play feed the request returned
    ret,                \* value returned by the function applied on its own
    events,             \* main: events
    idx,                \* main: loop index of the event being processed
    video_files,        \* main: annotated file names, the list handed to the concatenator
    temp_videos,        \* main: raw file names
    total_off,          \* main: running totals
    total_def,
    input_video,        \* destination of the retrieval in progress
    output_video,       \* annotated name of the clip in progress
    fs,                 \* the working directory: file name -> content
    dl,                 \* the retriever call in progress or just returned
    clip_number,        \* session: 0-based position being replaced
    replacements_made,  \* session: the flag it returns
    rounds,             \* session: prompts answered "yes" so far
    output_filename,    \* main: name of the final artifact
    manifest,           \* lines of the last videos.txt written
    nconcat,            \* history: calls of concatenate_videos completed
    nreplaced,          \* history: substitutions done by replace_clip
    processed,          \* history: loop indices of the events that were not skipped
    faults,             \* history: calls the environment has let fail so far
    exc                 \* the exception that ended the run, if any

vars == <<pc, response, ret, events, idx, video_files, temp_videos, total_off, total_def,
          input_video, output_video, fs, dl, clip_number, replacements_made,
          rounds, output_filename, manifest, nconcat, nreplaced, processed, faults, exc>>

mainVars == <<idx, video_files, temp_videos, total_off, total_def, processed>>
inputVars == <<response, ret>>
sessionVars == <<clip_number, replacements_made, rounds, nreplaced>>
concatVars == <<output_filename, manifest, nconcat>>

DlIdle == [caller |-> "none", attempt |-> 0, navs |-> 0, waited |-> 0,
           browser |-> "none", started |-> FALSE, outcome |-> "none",
           before |-> "absent", faulted |-> FALSE, pw |-> "none", launches |-> 0, missing |-> 0]

\* content of the file at name, "absent" when there is none
FileAt(f, name) == IF name \in DOMAIN f THEN f[name] ELSE "absent"

Exists(f, name) == name \in DOMAIN f

WriteFile(f, name, content) == (name :> content) @@ f

RemoveFile(f, name) == [n \in (DOMAIN f) \ {name} |-> f[n]]

\* what main() and its collaborators hold before the first statement runs
InitRest ==
    /\ idx = 0
    /\ video_files = <<>>
    /\ temp_videos = <<>>
    /\ total_off = 0
    /\ total_def = 0
    /\ input_video = <<>>
    /\ output_video = <<>>
    /\ fs = <<>>
    /\ dl = DlIdle
    /\ clip_number = 0
    /\ replacements_made = FALSE
    /\ rounds = 0
    /\ output_filename = <<>>
    /\ manifest = <<>>
    /\ nconcat = 0
    /\ nreplaced = 0
    /\ processed = <<>>
    /\ faults = 0
    /\ exc = "none"

Init ==
    /\ response \in Feeds
    /\ ret = <<>>
    /\ events = <<>>
    /\ pc = "start"
    /\ InitRest

(* ---------------------------- ClipRetriever ---------------------------- *)
\* entering download_video_from_page(url, file_name): the browser is launched
DlCall(caller, file_name) ==
    [DlIdle EXCEPT !.caller = caller, !.browser = "open", !.before = FileAt(fs, file_name),
                   !.pw = "running", !.launches = 1]

\* a variant without the with block: nothing is stopped when the call is left
LeaveWith_Nothing(d) == d

\* leaving the `with sync_playwright() as p` block, by return or by exception:
\* Playwright is stopped, and a browser it still holds open goes down with it
LeaveWith(d) ==
    [d EXCEPT !.pw = "stopped", !.browser = IF @ = "open" THEN "killed" ELSE @]

\* the environment may let this call fail: it failed before, or a fault is left
CanFault == dl.faulted \/ faults < MaxFaults

Charged == IF dl.faulted THEN faults ELSE faults + 1

ReturnPc == IF dl.caller = "main" THEN "main_ret" ELSE "rep_ret"

\* page.goto and wait_for_selector both succeed: break out of the retry loop
DL_GotoOk ==
    /\ pc = "dl_goto"
    /\ dl' = [dl EXCEPT !.navs = @ + 1]
    /\ pc' = "dl_src"
    /\ UNCHANGED <<inputVars, events, mainVars, sessionVars, concatVars, input_video, output_video, fs,
                   faults, exc>>

\* a variant that treats the missing element as a failed navigation
DL_GotoNoElement_Retry ==
    /\ pc = "dl_goto"
    /\ CanFault
    /\ dl.attempt < max_retries - 1
    /\ dl' = [dl EXCEPT !.navs = @ + 1, !.attempt = @ + 1, !.waited = @ + RetryDelay,
                        !.missing = @ + 1, !.faulted = TRUE]
    /\ faults' = Charged
    /\ pc' = "dl_goto"
    /\ UNCHANGED <<inputVars, events, mainVars, sessionVars, concatVars, input_video,
                   output_video, fs, exc>>

\* page.goto succeeds, the video element never appears: close and return
DL_GotoNoElement ==
    /\ pc = "dl_goto"
    /\ CanFault
    /\ dl' = LeaveWith([dl EXCEPT !.navs = @ + 1, !.browser = "closed", !.outcome = "no_element",
                        !.missing = @ + 1, !.faulted = TRUE])
    /\ faults' = Charged
    /\ pc' = ReturnPc
    /\ UNCHANGED <<inputVars, events, mainVars, sessionVars, concatVars, input_video, output_video, fs, exc>>

\* a variant whose retry test is off by one: a sixth attempt is made
DL_GotoFail_OneMore ==
    /\ pc = "dl_goto"
    /\ CanFault
    /\ IF dl.attempt < max_retries
       THEN /\ dl' = [dl EXCEPT !.navs = @ + 1, !.waited = @ + RetryDelay,
                                !.attempt = @ + 1, !.faulted = TRUE]
            /\ pc' = "dl_goto"
       ELSE /\ dl' = LeaveWith([dl EXCEPT !.navs = @ + 1, !.browser = "closed",
                                !.outcome = "nav_exhausted", !.faulted = TRUE])
            /\ pc' = ReturnPc
    /\ faults' = Charged
    /\ UNCHANGED <<inputVars, events, mainVars, sessionVars, concatVars, input_video, output_video, fs, exc>>

\* page.goto raises: sleep and retry, or give up on the last attempt
DL_GotoFail ==
    /\ pc = "dl_goto"
    /\ CanFault
    /\ IF dl.attempt < max_retries - 1
       THEN /\ dl' = [dl EXCEPT !.navs = @ + 1, !.waited = @ + RetryDelay,
                                !.attempt = @ + 1, !.faulted = TRUE]
            /\ pc' = "dl_goto"
       ELSE /\ dl' = LeaveWith([dl EXCEPT !.navs = @ + 1, !.browser = "closed",
                                !.outcome = "nav_exhausted", !.faulted = TRUE])
            /\ pc' = ReturnPc
    /\ faults' = Charged
    /\ UNCHANGED <<inputVars, events, mainVars, sessionVars, concatVars, input_video, output_video, fs, exc>>

\* where an exception of the given kind raised inside the retriever lands:
\* main() catches nothing, prompt_for_replacements catches ValueError only
RaisePc(kind) == IF dl.caller = "replace" /\ kind = "ValueError" THEN "another" ELSE "crashed"

RaiseExc(kind) == IF dl.caller = "replace" /\ kind = "ValueError" THEN exc ELSE kind

\* get_attribute('src'): a missing source raises Exception('Video source not found!')
DL_Src ==
    /\ pc = "dl_src"
    /\ \E src_present \in BOOLEAN :
         IF src_present
         THEN /\ pc' = "dl_get"
              /\ dl' = dl
              /\ exc' = exc
              /\ faults' = faults
         ELSE /\ CanFault
              /\ pc' = RaisePc("Exception")
              /\ exc' = RaiseExc("Exception")
              /\ dl' = LeaveWith([dl EXCEPT !.outcome = "raised", !.faulted = TRUE])
              /\ faults' = Charged
    /\ UNCHANGED <<inputVars, events, mainVars, sessionVars, concatVars, input_video, output_video, fs>>

\* what requests.get and the chunked write can do
GetOutcomes == {"ok", "bad_status", "invalid_url", "connection_error", "stream_error"}

\* requests.get(video_url, stream=True), the chunked write, browser.close()
DL_Get ==
    /\ pc = "dl_get"
    /\ \E r \in GetOutcomes :
         /\ r = "ok" \/ CanFault
         /\ faults' = IF r = "ok" THEN faults ELSE Charged
         /\ CASE r = "ok" ->
                /\ fs' = WriteFile(fs, input_video, "complete")
                /\ dl' = LeaveWith([dl EXCEPT !.started = TRUE, !.browser = "closed",
                                    !.outcome = "completed"])
                /\ pc' = ReturnPc
                /\ exc' = exc
           [] r = "bad_status" ->
                /\ fs' = fs
                /\ dl' = LeaveWith([dl EXCEPT !.started = TRUE, !.browser = "closed",
                                    !.outcome = "bad_status", !.faulted = TRUE])
                /\ pc' = ReturnPc
                /\ exc' = exc
           [] r = "invalid_url" ->
                \* requests.exceptions.InvalidSchema / MissingSchema are ValueErrors
                /\ fs' = fs
                /\ dl' = LeaveWith([dl EXCEPT !.started = TRUE, !.outcome = "raised", !.faulted = TRUE])
                /\ pc' = RaisePc("ValueError")
                /\ exc' = RaiseExc("ValueError")
           [] r = "connection_error" ->
                /\ fs' = fs
                /\ dl' = LeaveWith([dl EXCEPT !.started = TRUE, !.outcome = "raised", !.faulted = TRUE])
                /\ pc' = RaisePc("RequestException")
                /\ exc' = RaiseExc("RequestException")
           [] r = "stream_error" ->
                \* the file is open for writing when iter_content raises
                /\ fs' = WriteFile(fs, input_video, "partial")
                /\ dl' = LeaveWith([dl EXCEPT !.started = TRUE, !.outcome = "raised", !.faulted = TRUE])
                /\ pc' = RaisePc("RequestException")
                /\ exc' = RaiseExc("RequestException")
    /\ UNCHANGED <<inputVars, events, mainVars, sessionVars, concatVars, input_video, output_video>>

(* --------------------------- OverlayRenderer --------------------------- *)
\* ffmpeg -y -i input_video ... output_video; a non-zero exit is printed, not raised
\* a tool run on inputs that are all there fails only when the environment has a fault left
ToolMayFail(tool_ok, inputs_there) == tool_ok \/ ~inputs_there \/ faults < MaxFaults

ToolCharged(tool_ok, inputs_there) == IF ~tool_ok /\ inputs_there THEN faults + 1 ELSE faults

overlay_text_on_video(f, in, out, tool_ok) ==
    IF tool_ok /\ Exists(f, in) THEN WriteFile(f, out, "complete") ELSE f

(* ------------------------------ Compiler ------------------------------- *)
\* if not off and not deff: continue
SkipEvent(off, deff) == Not(off) /\ Not(deff)

\* a variant that accumulates
UpdateTotal_Sum(total, value) == total + value

\* total_off = off ; total_def = deff
UpdateTotal(total, value) == value

Main_Start ==
    /\ pc = "start"
    /\ faults' = faults
    /\ events' = extract_events(response, player_name)
    /\ pc' = IF events' = <<>> THEN "no_events" ELSE "loop"
    /\ UNCHANGED <<inputVars, mainVars, sessionVars, concatVars, input_video, output_video, fs, dl, exc>>

\* one pass of the for loop up to the call of download_video_from_page
Main_Iter ==
    /\ pc = "loop"
    /\ faults' = faults
    /\ idx < Len(events)
    /\ LET description == events[idx + 1].description
           st == extract_off_def(description)
           off == st[1]
           deff == st[2]
       IN  IF SkipEvent(off, deff)
           THEN /\ idx' = idx + 1
                /\ pc' = "loop"
                /\ UNCHANGED <<total_off, total_def, input_video, output_video, dl,
                               processed>>
           ELSE /\ total_off' = UpdateTotal(total_off, off)
                /\ total_def' = UpdateTotal(total_def, deff)
                /\ processed' = Append(processed, idx)
                /\ input_video' = RawName(idx, off, deff)
                /\ output_video' = ProcessedName(idx, off, deff)
                /\ dl' = DlCall("main", RawName(idx, off, deff))
                /\ pc' = "dl_goto"
                /\ idx' = idx
    /\ UNCHANGED <<inputVars, events, video_files, temp_videos, sessionVars, concatVars, fs, exc>>

\* the rest of the pass: record the raw name, overlay, append the annotated name
Main_Overlay ==
    /\ pc = "main_ret"
    /\ temp_videos' = Append(temp_videos, input_video)
    /\ \E tool_ok \in BOOLEAN :
         /\ ToolMayFail(tool_ok, Exists(fs, input_video))
         /\ faults' = ToolCharged(tool_ok, Exists(fs, input_video))
         /\ fs' = overlay_text_on_video(fs, input_video, output_video, tool_ok)
    /\ video_files' = Append(video_files, output_video)
    /\ idx' = idx + 1
    /\ dl' = DlIdle
    /\ pc' = "loop"
    /\ UNCHANGED <<inputVars, events, total_off, total_def, processed, sessionVars, concatVars,
                   input_video, output_video, exc>>

\* f"{away}_{home}_{date}_Off{total_off}_Def{total_def}_Total{total_rebounds}.mp4"
OutputName(off, deff) ==
    away_team \o <<"_">> \o home_team \o <<"_">> \o Replace(game_date, "/", "_")
        \o StatTail(Dec(off), Dec(deff), off + deff)

Main_AfterLoop ==
    /\ pc = "loop"
    /\ faults' = faults
    /\ idx >= Len(events)
    /\ IF video_files = <<>>
       THEN /\ pc' = "no_videos"
            /\ output_filename' = output_filename
       ELSE /\ output_filename' = OutputName(total_off, total_def)
            /\ pc' = "concat_write"
    /\ UNCHANGED <<inputVars, events, mainVars, sessionVars, manifest, nconcat, input_video, output_video,
                   fs, dl, exc>>

(* ----------------------------- Concatenator ---------------------------- *)
\* f"file '{os.path.abspath(video)}'"
ManifestLine(video) == <<"f", "i", "l", "e", " ", "'", "/">> \o video \o <<"'">>

Concat_Write ==
    /\ pc = "concat_write"
    /\ faults' = faults
    /\ manifest' = [i \in 1..Len(video_files) |-> ManifestLine(video_files[i])]
    /\ fs' = WriteFile(fs, L_VideosTxt, "complete")
    /\ pc' = "concat_run"
    /\ UNCHANGED <<inputVars, events, mainVars, sessionVars, output_filename, nconcat, input_video,
                   output_video, dl, exc>>

\* the manifest is removed only after the tool succeeded
Concat_Run_KeepOnFailure ==
    /\ pc = "concat_run"
    /\ \E tool_ok \in BOOLEAN :
         LET inputs_there == \A i \in 1..Len(video_files) : Exists(fs, video_files[i])
         IN  /\ ToolMayFail(tool_ok, inputs_there)
             /\ faults' = ToolCharged(tool_ok, inputs_there)
             /\ fs' = IF tool_ok /\ inputs_there
                      THEN RemoveFile(WriteFile(fs, output_filename, "complete"), L_VideosTxt)
                      ELSE fs
    /\ nconcat' = nconcat + 1
    /\ pc' = IF nconcat = 0 THEN "prompt" ELSE "cleanup"
    /\ UNCHANGED <<inputVars, events, mainVars, sessionVars, output_filename, manifest,
                   input_video, output_video, dl, exc>>

\* the tool can only succeed when every listed file is there
Concat_Run ==
    /\ pc = "concat_run"
    /\ \E tool_ok \in BOOLEAN :
         LET inputs_there == \A i \in 1..Len(video_files) : Exists(fs, video_files[i])
             made == IF tool_ok /\ inputs_there
                     THEN WriteFile(fs, output_filename, "complete")
                     ELSE fs
         IN  /\ ToolMayFail(tool_ok, inputs_there)
             /\ faults' = ToolCharged(tool_ok, inputs_there)
             /\ fs' = RemoveFile(made, L_VideosTxt)
    /\ nconcat' = nconcat + 1
    /\ pc' = IF nconcat = 0 THEN "prompt" ELSE "cleanup"
    /\ UNCHANGED <<inputVars, events, mainVars, sessionVars, output_filename, manifest, input_video,
                   output_video, dl, exc>>

(* -------------------------- ReplacementSession ------------------------- *)
\* int(s) accepts an optional sign followed by decimal digits
Unsigned(s) == IF s # <<>> /\ s[1] \in {"-", "+"} THEN Tail(s) ELSE s

IsIntLiteral(s) == Unsigned(s) # <<>> /\ \A i \in 1..Len(Unsigned(s)) : IsDigit(Unsigned(s)[i])

PyInt(s) == IF s # <<>> /\ s[1] = "-" THEN 0 - IntOfDigits(Unsigned(s))
            ELSE IntOfDigits(Unsigned(s))

\* what the user may type at the clip-number prompt
PositionInputs ==
    {Dec(n) : n \in 0..(MaxEvents + 1)} \cup {<<"x">>, <<>>, <<"-", "1">>, <<" ", "2", " ">>}

\* "Do you want to replace any clips?" answered with anything but yes: break
Prompt_No ==
    /\ pc = "prompt"
    /\ faults' = faults
    /\ pc' = "after_prompt"
    /\ UNCHANGED <<inputVars, events, mainVars, sessionVars, concatVars, input_video, output_video, fs, dl, exc>>

\* a variant that counts the rejected input as a replacement
Prompt_NonNumeric_SetsFlag ==
    /\ pc = "prompt"
    /\ faults' = faults
    /\ rounds < MaxRounds
    /\ \E inp \in PositionInputs : ~IsIntLiteral(Strip(inp))
    /\ rounds' = rounds + 1
    /\ replacements_made' = TRUE
    /\ pc' = "another"
    /\ UNCHANGED <<inputVars, events, mainVars, clip_number, nreplaced, concatVars,
                   input_video, output_video, fs, dl, exc>>

\* answered yes, then a clip number int() rejects: ValueError, caught at the bottom of the try
Prompt_NonNumeric ==
    /\ pc = "prompt"
    /\ faults' = faults
    /\ rounds < MaxRounds
    /\ \E inp \in PositionInputs : ~IsIntLiteral(Strip(inp))
    /\ rounds' = rounds + 1
    /\ pc' = "another"
    /\ UNCHANGED <<inputVars, events, mainVars, clip_number, replacements_made, nreplaced, concatVars,
                   input_video, output_video, fs, dl, exc>>

\* answered yes, then a number outside 1..len(video_files): continue
Prompt_OutOfRange ==
    /\ pc = "prompt"
    /\ faults' = faults
    /\ rounds < MaxRounds
    /\ \E inp \in PositionInputs :
         /\ IsIntLiteral(Strip(inp))
         /\ LET n == PyInt(Strip(inp)) - 1
            IN  /\ n < 0 \/ n >= Len(video_files)
                /\ clip_number' = n
    /\ rounds' = rounds + 1
    /\ pc' = "prompt"
    /\ UNCHANGED <<inputVars, events, mainVars, replacements_made, nreplaced, concatVars,
                   input_video, output_video, fs, dl, exc>>

\* answered yes, a valid number and a URL: replace_clip up to its call of the retriever
Prompt_Replace ==
    /\ pc = "prompt"
    /\ faults' = faults
    /\ rounds < MaxRounds
    /\ \E inp \in PositionInputs :
         /\ IsIntLiteral(Strip(inp))
         /\ LET n == PyInt(Strip(inp)) - 1
                original_filename == video_files[n + 1]
                match == FileStatSearch(original_filename)
            IN  /\ ~(n < 0 \/ n >= Len(video_files))
                /\ clip_number' = n
                /\ IF ~match.ok
                   THEN /\ replacements_made' = TRUE
                        /\ pc' = "another"
                        /\ UNCHANGED <<input_video, output_video, dl>>
                   ELSE /\ input_video' = TempName(n)
                        /\ output_video' = ReplacementName(n, match.g1, match.g2)
                        /\ dl' = DlCall("replace", TempName(n))
                        /\ pc' = "dl_goto"
                        /\ replacements_made' = replacements_made
    /\ rounds' = rounds + 1
    /\ UNCHANGED <<inputVars, events, mainVars, nreplaced, concatVars, fs, exc>>

\* a variant that leaves the list entry as it was
Rep_Overlay_NoStore ==
    /\ pc = "rep_ret"
    /\ \E tool_ok \in BOOLEAN :
         /\ ToolMayFail(tool_ok, Exists(fs, input_video))
         /\ faults' = ToolCharged(tool_ok, Exists(fs, input_video))
         /\ fs' = overlay_text_on_video(fs, input_video, output_video, tool_ok)
    /\ replacements_made' = TRUE
    /\ nreplaced' = nreplaced + 1
    /\ dl' = DlIdle
    /\ pc' = "another"
    /\ UNCHANGED <<inputVars, events, mainVars, clip_number, rounds,
                   concatVars, input_video, output_video, exc>>

\* the rest of replace_clip after the retriever returned, and the flag
Rep_Overlay ==
    /\ pc = "rep_ret"
    /\ \E tool_ok \in BOOLEAN :
         /\ ToolMayFail(tool_ok, Exists(fs, input_video))
         /\ faults' = ToolCharged(tool_ok, Exists(fs, input_video))
         /\ fs' = overlay_text_on_video(fs, input_video, output_video, tool_ok)
    /\ video_files' = [video_files EXCEPT ![clip_number + 1] = output_video]
    /\ replacements_made' = TRUE
    /\ nreplaced' = nreplaced + 1
    /\ dl' = DlIdle
    /\ pc' = "another"
    /\ UNCHANGED <<inputVars, events, idx, temp_videos, total_off, total_def, processed,
                   clip_number, rounds,
                   concatVars, input_video, output_video, exc>>

\* "Do you want to replace another clip?"
Another ==
    /\ pc = "another"
    /\ faults' = faults
    /\ \E continue_replacement \in {"yes", "no"} :
         pc' = IF continue_replacement # "yes" THEN "after_prompt" ELSE "prompt"
    /\ dl' = DlIdle
    /\ UNCHANGED <<inputVars, events, mainVars, sessionVars, concatVars, input_video, output_video, fs, exc>>

\* a variant that concatenates again whatever the session returned
After_Prompt_Always ==
    /\ pc = "after_prompt"
    /\ faults' = faults
    /\ pc' = "concat_write"
    /\ UNCHANGED <<inputVars, events, mainVars, sessionVars, concatVars, input_video, output_video, fs, dl, exc>>

\* main() after the session returned its flag
After_Prompt ==
    /\ pc = "after_prompt"
    /\ faults' = faults
    /\ pc' = IF replacements_made THEN "concat_write" ELSE "cleanup"
    /\ UNCHANGED <<inputVars, events, mainVars, sessionVars, concatVars, input_video, output_video, fs, dl, exc>>

(* ------------------------------- cleanup ------------------------------- *)
\* for video in all_clips: os.remove(video) ; stops at the first missing file
RECURSIVE RemoveAll(_, _)
RemoveAll(f, clips) ==
    IF clips = <<>> THEN [fs |-> f, ok |-> TRUE]
    ELSE IF ~Exists(f, Head(clips)) THEN [fs |-> f, ok |-> FALSE]
    ELSE RemoveAll(RemoveFile(f, Head(clips)), Tail(clips))

Cleanup ==
    /\ pc = "cleanup"
    /\ faults' = faults
    /\ LET all_clips == temp_videos \o video_files
           r == RemoveAll(fs, all_clips)
       IN  /\ fs' = r.fs
           /\ pc' = IF r.ok THEN "done" ELSE "crashed"
           /\ exc' = IF r.ok THEN exc ELSE "FileNotFoundError"
    /\ UNCHANGED <<inputVars, events, mainVars, sessionVars, concatVars, input_video, output_video, dl>>

Next ==
    \/ Main_Start
    \/ Main_Iter
    \/ DL_GotoOk
    \/ DL_GotoNoElement
    \/ DL_GotoFail
    \/ DL_Src
    \/ DL_Get
    \/ Main_Overlay
    \/ Main_AfterLoop
    \/ Concat_Write
    \/ Concat_Run
    \/ Prompt_No
    \/ Prompt_NonNumeric
    \/ Prompt_OutOfRange
    \/ Prompt_Replace
    \/ Rep_Overlay
    \/ Another
    \/ After_Prompt
    \/ Cleanup

Spec == Init /\ [][Next]_vars

TypeOK ==
    /\ pc \in {"start", "loop", "dl_goto", "dl_src", "dl_get", "main_ret", "rep_ret",
               "concat_write", "concat_run", "prompt", "another", "after_prompt",
               "cleanup", "done", "crashed", "no_events", "no_videos",
               "x_call", "x_ret"}
    /\ idx \in 0..Len(events)
    /\ Len(video_files) <= Len(events)
    /\ rounds \in 0..MaxRounds

(* ======================================================================= *)
(*                               properties                                *)
(* ======================================================================= *)
\* the statistic pair of the event at loop index i
PairOf(i) == extract_off_def(events[i + 1].description)

\* the numbers a file name carries after Off, Def and Total
EncodedOff(name) == IntOfDigits(FileStatSearch(name).g1)
EncodedDef(name) == IntOfDigits(FileStatSearch(name).g2)
EncodedTotal(name) == IntOfDigits(FileStatSearch(name).g3)

\* the for loop is over and the first concatenation is under way
LoopDone == pc \in {"concat_write", "concat_run"} /\ nconcat = 0

\* the replacement session is running
InSession ==
    \/ pc \in {"prompt", "another", "rep_ret"}
    \/ pc \in {"dl_goto", "dl_src", "dl_get"} /\ dl.caller = "replace"

\* C1: after the loop video_files holds one annotated name per event that was
\* not skipped, in feed order, each carrying that event's own Off, Def and
\* Off+Def, and the manifest handed to the concatenator lists them in that order.
C1_OneNamePerProcessedEvent ==
    LoopDone =>
        /\ Len(video_files) = Len(processed)
        /\ \A i \in 1..Len(processed) : \A j \in 1..Len(processed) :
             i < j => processed[i] < processed[j]
        /\ \A i \in 1..Len(video_files) :
             /\ i <= Len(processed)
             /\ HasPrefixAt(video_files[i], 1,
                            L_Processed \o L_Clip \o Dec(processed[i]) \o L_UOff)
             /\ FileStatSearch(video_files[i]).ok
             /\ EncodedOff(video_files[i]) = PairOf(processed[i])[1]
             /\ EncodedDef(video_files[i]) = PairOf(processed[i])[2]
             /\ EncodedTotal(video_files[i]) = PairOf(processed[i])[1] + PairOf(processed[i])[2]
        /\ pc = "concat_run" =>
             /\ Len(manifest) = Len(video_files)
             /\ \A i \in 1..Len(video_files) : Contains(manifest[i], video_files[i])

\* the feed of scenario 1, (2,1), (0,3), (1,0), has gone through the loop
C1_Witness ==
    /\ pc = "concat_run"
    /\ nconcat = 0
    /\ Len(events) = 3
    /\ PairOf(0) = <<2, 1>> /\ PairOf(1) = <<0, 3>> /\ PairOf(2) = <<1, 0>>
    /\ Len(video_files) = 3
    /\ EncodedTotal(video_files[1]) = 3
    /\ EncodedTotal(video_files[2]) = 3
    /\ EncodedTotal(video_files[3]) = 1

\* C2: a step of the session either leaves video_files alone or changes the one
\* entry at clip_number, and the new entry carries the Off and Def of the name
\* that was there before the step.
C2_ReplacementFrame ==
    [][InSession =>
        \/ video_files' = video_files
        \/ /\ Len(video_files') = Len(video_files)
           /\ \A j \in 1..Len(video_files) :
                j # clip_number + 1 => video_files'[j] = video_files[j]
           /\ FileStatSearch(video_files'[clip_number + 1]).ok
           /\ EncodedOff(video_files'[clip_number + 1]) = EncodedOff(video_files[clip_number + 1])
           /\ EncodedDef(video_files'[clip_number + 1]) = EncodedDef(video_files[clip_number + 1])]_vars

\* two replacements were accepted in a list of two, the last one under a new name
C2_Witness ==
    /\ pc = "another"
    /\ nreplaced = 2
    /\ Len(video_files) = 2
    /\ processed[clip_number + 1] # clip_number
    /\ EncodedOff(video_files[clip_number + 1]) = PairOf(processed[clip_number + 1])[1]

\* a retriever call has left its retry loop
DlPastLoop == pc \in {"dl_src", "dl_get"} \/ dl.outcome # "none"

\* at most five navigations; a wait of RetryDelay after every failed attempt but
\* the fifth; no navigation after the first that succeeds; failure by navigation
\* only after five failures in a row, and then without a download
RetryDiscipline ==
    /\ dl.navs <= max_retries
    /\ pc = "dl_goto" => dl.navs = dl.attempt /\ dl.waited = RetryDelay * dl.navs
    /\ DlPastLoop => dl.navs >= 1 /\ dl.waited = RetryDelay * (dl.navs - 1)
    /\ (DlPastLoop /\ dl.outcome # "nav_exhausted") => dl.navs = dl.attempt + 1
    /\ dl.outcome = "nav_exhausted" =>
         /\ dl.navs = max_retries
         /\ dl.attempt = max_retries - 1
         /\ ~dl.started

C4_Claim ==
    /\ dl.outcome = "completed" => FileAt(fs, input_video) = "complete"
    /\ dl.outcome \in {"nav_exhausted", "no_element", "bad_status", "raised"} =>
         ~Exists(fs, input_video)

\* the compiler loop is running
InLoop ==
    \/ pc \in {"loop", "main_ret"}
    \/ pc \in {"dl_goto", "dl_src", "dl_get"} /\ dl.caller = "main"

\* C5: in the loop and in the session every name in video_files has a backing file.
C5_Claim ==
    (InLoop \/ InSession) => \A i \in 1..Len(video_files) : Exists(fs, video_files[i])

\* C6: a retrieval that fails in the loop for want of a media source does not
\* end the run.
C6_Claim == ~(pc = "crashed" /\ dl.caller = "main" /\ exc = "Exception")

\* C7: an event the loop has passed was skipped exactly when the extractor
\* gave no pair for its description.
C7_Claim ==
    \A j \in 0..(idx - 1) :
        (\E i \in 1..Len(processed) : processed[i] = j) <=> PairOf(j) # <<None, None>>

\* the pair of the last event that was not skipped, (0, 0) before the first
LastSeen == IF processed = <<>> THEN <<0, 0>> ELSE PairOf(processed[Len(processed)])

\* C8: the running totals are the pair of the last event that was not skipped,
\* and the final file name carries that pair and its sum.
C8_LastSeenTotals ==
    LET last == LastSeen
        m == FileStatSearch(output_filename)
    IN  /\ <<total_off, total_def>> = last
        /\ output_filename # <<>> =>
             /\ processed # <<>>
             /\ m.ok
             /\ IntOfDigits(m.g1) = last[1]
             /\ IntOfDigits(m.g2) = last[2]
             /\ IntOfDigits(m.g3) = last[1] + last[2]

\* two events went through, one was skipped after the last of them, and the
\* final name is built from totals that are not the sums
C8_Witness ==
    /\ pc = "concat_write"
    /\ nconcat = 0
    /\ Len(processed) = 2
    /\ processed[2] < Len(events) - 1
    /\ total_off # PairOf(processed[1])[1] + PairOf(processed[2])[1]
    /\ EncodedOff(output_filename) = PairOf(processed[2])[1]

\* C9: when the run ends with the final artifact in place, nothing but the
\* artifact is left in the working directory.
C9_Claim == (pc = "done" /\ Exists(fs, output_filename)) => DOMAIN fs = {output_filename}

InvalidInputStep == pc = "prompt" /\ rounds' = rounds + 1 /\ pc' # "dl_goto"

\* C11: after either kind of invalid clip number the session is back at its
\* first question, without asking whether to replace another clip.
C11_Claim == [][InvalidInputStep => pc' = "prompt"]_vars

\* a retriever call is over
DlEnded == dl.outcome # "none"

\* C12: a call launches the browser once, and however the call is left, by its
\* normal end, by an early return or by an exception, the browser is no longer
\* open and Playwright is stopped.
C12_BrowserReleased ==
    /\ dl.launches <= 1
    /\ (dl.caller # "none" => dl.launches = 1)
    /\ DlEnded => (dl.browser \in {"closed", "killed"} /\ dl.pw = "stopped")
    /\ (DlEnded /\ dl.outcome # "raised") => dl.browser = "closed"

\* a call was left by the exception for a missing media source
C12_Witness ==
    /\ dl.outcome = "raised"
    /\ ~dl.started
    /\ exc = "Exception"
    /\ dl.browser = "killed"

(* ======================================================================= *)
(*                      extract_off_def on its own                         *)
(* ======================================================================= *)
\* longest description of the extractor's own specification, in pieces
MaxTokens == 5

\* the pieces descriptions are put together from
Tokens == {L_OffColon, L_DefColon, <<"2">>, <<"7">>, <<" ">>, <<"x">>}

RECURSIVE Flatten(_)
Flatten(ts) == IF ts = <<>> THEN <<>> ELSE Head(ts) \o Flatten(Tail(ts))

TokenTexts == {Flatten(ts) : ts \in SeqsUpTo(Tokens, MaxTokens)}

InitExtract ==
    /\ response = [gameId |-> <<"1">>, actions |-> <<>>]
    /\ ret = <<>>
    /\ events \in {<<[description |-> d, event_num |-> 7]>> : d \in TokenTexts}
    /\ pc = "x_call"
    /\ InitRest

\* off, deff = extract_off_def(description) and nothing else
X_Extract ==
    /\ pc = "x_call"
    /\ ret' = extract_off_def(events[idx + 1].description)
    /\ pc' = "x_ret"
    /\ UNCHANGED <<response, events, mainVars, sessionVars, concatVars, input_video,
                   output_video, fs, dl, faults, exc>>

SpecExtract == InitExtract /\ [][X_Extract]_vars

\* label followed by at least one digit at index i of d
LabelledAt(d, i, label) ==
    /\ HasPrefixAt(d, i, label)
    /\ i + Len(label) <= Len(d)
    /\ IsDigit(d[i + Len(label)])

\* the integer written after the label at index i
IntAfter(d, i, label) ==
    IntOfDigits(SubSeq(d, i + Len(label), DigitRunEnd(d, i + Len(label)) - 1))

LabelledInts(d, label) ==
    {IntAfter(d, i, label) : i \in {j \in 1..Len(d) : LabelledAt(d, j, label)}}

\* the Off integer at i is followed by the Def integer at j with nothing but
\* white space between the last digit and the label
AdjacentVia(d, i, j) ==
    /\ LabelledAt(d, i, L_OffColon)
    /\ j > i
    /\ LabelledAt(d, j, L_DefColon)
    /\ \A k \in (i + Len(L_OffColon))..(j - 1) : IsDigit(d[k]) \/ IsSpace(d[k])
    /\ \A k \in (i + Len(L_OffColon))..(j - 1) :
           IsSpace(d[k]) => \A l \in k..(j - 1) : IsSpace(d[l])

AdjacentStarts(d) == {i \in 1..Len(d) : \E j \in 1..Len(d) : AdjacentVia(d, i, j)}

Min(S) == CHOOSE x \in S : \A y \in S : x <= y

NonePair == <<None, None>>

\* C13 as stated: both labelled integers anywhere in the text give their
\* pair, one label or neither gives (None, None), and no pair is half absent.
C13_Original ==
    pc = "x_ret" =>
        LET d == events[1].description
            offs == LabelledInts(d, L_OffColon)
            defs == LabelledInts(d, L_DefColon)
        IN  /\ (offs # {} /\ defs # {}) => (ret[1] \in offs /\ ret[2] \in defs)
            /\ (offs = {} \/ defs = {}) => ret = NonePair
            /\ (ret[1] = None) <=> (ret[2] = None)

\* C13: the extractor returns the pair of the leftmost place where the Off
\* integer is followed by the Def integer with only white space between, it
\* returns (None, None) for every other description, among them those with
\* one label or neither, and no pair is half absent.
C13_AdjacentLabels ==
    pc = "x_ret" =>
        LET d == events[1].description
            starts == AdjacentStarts(d)
        IN  /\ starts = {} => ret = NonePair
            /\ starts # {} =>
                   LET i == Min(starts)
                       j == CHOOSE n \in 1..Len(d) : AdjacentVia(d, i, n)
                   IN  ret = <<IntAfter(d, i, L_OffColon), IntAfter(d, j, L_DefColon)>>
            /\ (LabelledInts(d, L_OffColon) = {} \/ LabelledInts(d, L_DefColon) = {})
                   => ret = NonePair
            /\ (ret[1] = None) <=> (ret[2] = None)

C13_Witness ==
    /\ pc = "x_ret"
    /\ events[1].description = L_OffColon \o <<"2", " ">> \o L_DefColon \o <<"7">>
    /\ ret = <<2, 7>>

(* ======================================================================= *)
(*                        extract_events on its own                        *)
(* ======================================================================= *)
\* longest feed of the selector's own specification
MaxEntries == 2

\* descriptions with the marker, with another player's name, with the marker
\* in lower case, with the marker inside white space, and the absent key
SelectDescriptions ==
    { Desc(2, 1),
      <<"B", "r", "i", "d", "g", "e", "s", " ", "R", "E", "B", "O", "U", "N", "D">>,
      <<"h", "a", "r", "t", " ", "r", "e", "b", "o", "u", "n", "d">>,
      <<" ">> \o player_name \o <<" ">>,
      Missing }

\* event.get('actionNumber'): absent, or the number the feed carries
SelectNumbers == {None, 0, 7, 8}

SelectEntries ==
    {[description |-> d, actionNumber |-> n] : d \in SelectDescriptions, n \in SelectNumbers}

InitSelect ==
    /\ response \in {[gameId |-> <<"1">>, actions |-> a] :
                        a \in SeqsUpTo(SelectEntries, MaxEntries)}
    /\ ret = <<>>
    /\ events = <<>>
    /\ pc = "start"
    /\ InitRest

SpecSelect == InitSelect /\ [][Main_Start]_vars

\* the entry has an identifier and a description that contains the marker
Selected(entry) ==
    /\ entry.actionNumber # None
    /\ entry.description # Missing
    /\ Contains(entry.description, player_name)

\* the event a selected entry becomes
EventOf(entry) == [description |-> Strip(entry.description), event_num |-> entry.actionNumber]

\* C14: the selector returns exactly the entries that have an identifier and
\* whose description contains the marker, in feed order, none twice.
C14_Claim ==
    pc \in {"loop", "no_events"} =>
        LET sel == SelectSeq(response.actions, Selected)
        IN  events = [i \in 1..Len(sel) |-> EventOf(sel[i])]

\* C15: a call of the concatenator writes one manifest line per input, in the
\* order of the list, removes the manifest whether the tool succeeded or
\* failed, and leaves every input file as it found it.
C15_ManifestDiscipline ==
    [][ /\ pc = "concat_write" =>
              /\ Len(manifest') = Len(video_files)
              /\ \A i \in 1..Len(video_files) : manifest'[i] = ManifestLine(video_files[i])
              /\ Exists(fs', L_VideosTxt)
        /\ pc = "concat_run" =>
              /\ ~Exists(fs', L_VideosTxt)
              /\ pc' \in {"prompt", "cleanup"}
              /\ \A i \in 1..Len(video_files) :
                     FileAt(fs', video_files[i]) = FileAt(fs, video_files[i])
      ]_vars

\* the first concatenation is over, the tool failed with every input there
C15_Witness ==
    /\ pc = "prompt"
    /\ nconcat = 1
    /\ Len(video_files) >= 2
    /\ Len(manifest) = Len(video_files)
    /\ \A i \in 1..Len(video_files) : Exists(fs, video_files[i])
    /\ ~Exists(fs, output_filename)
    /\ ~Exists(fs, L_VideosTxt)

\* C16: once a navigation succeeded and the media element did not appear, the
\* call is over: it returns at once, whatever number of attempts is left, with
\* no download started and the file system as it was.
C16_NoElementFailsAtOnce ==
    /\ dl.missing >= 1 =>
           /\ dl.missing = 1
           /\ dl.outcome = "no_element"
           /\ pc \in {"main_ret", "rep_ret"}
           /\ dl.navs = dl.attempt + 1
           /\ ~dl.started
           /\ FileAt(fs, input_video) = dl.before
    /\ dl.outcome = "no_element" => dl.missing = 1

\* the element was missing after the second navigation, the first had failed
C16_Witness ==
    /\ dl.outcome = "no_element"
    /\ dl.attempt = 1
    /\ dl.navs = 2
    /\ pc = "main_ret"
    /\ ~Exists(fs, input_video)

\* the index a file name carries after processed_clip_
EncodedIndex(name) ==
    LET a == Len(L_Processed) + Len(L_Clip) + 1
    IN  IntOfDigits(SubSeq(name, a, DigitRunEnd(name, a) - 1))

C18_NoStateChange ==
    [][InvalidInputStep =>
          /\ video_files' = video_files
          /\ temp_videos' = temp_videos
          /\ fs' = fs
          /\ replacements_made' = replacements_made
          /\ nreplaced' = nreplaced
          /\ dl' = dl
          /\ dl.caller = "none"
          /\ pc' \in {"prompt", "another"}
      ]_vars

\* both kinds of rejected input were read, and nothing was replaced
C18_Witness ==
    /\ pc = "another"
    /\ rounds = 2
    /\ clip_number < 0
    /\ nreplaced = 0
    /\ ~replacements_made
    /\ dl = DlIdle
    /\ Len(video_files) >= 1

\* C19: once the loop is over the names in the list are pairwise distinct,
\* whatever was replaced since.
C19_Claim ==
    (events # <<>> /\ idx = Len(events)) =>
        \A i \in 1..Len(video_files) : \A j \in 1..Len(video_files) :
            i # j => video_files[i] # video_files[j]

\* C20: the final cleanup never aborts the run: every file it deletes is
\* there when it is deleted.
C20_Claim == ~(pc = "crashed" /\ exc = "FileNotFoundError")

====
